---- MODULE Spec2Model ----
(***************************************************************************)
(* Model of the Button intermediate of the Anima engine                    *)
(* (src/input/intermediate/button.rs): a rectangular widget that rewrites  *)
(* Left cursor press/release events of a batch into ButtonPressed /        *)
(* ButtonReleased / ButtonCanceled events, keeping one private flag,       *)
(* `pressed`, between events and between batches.                          *)
(*                                                                         *)
(* i32 values are modelled at their real width.  `x - self.x` on i32 is    *)
(* build dependent: a build with overflow checks (cargo's debug profile)   *)
(* panics when the difference leaves the i32 range, a build without them   *)
(* (the release profile) wraps modulo 2^32.  The variable overflow_checks  *)
(* is that choice, made once for a run.                                    *)
(***************************************************************************)
EXTENDS Integers, Sequences, FiniteSets, TLC

VARIABLES
    button,           \* the Button struct: id, x, y, width, height, pressed
    overflow_checks,  \* TRUE: i32 overflow panics; FALSE: it wraps
    pc,               \* "ready" | "returned" | "panicked": where the caller is
    input,            \* the batch handed to the last process call
    output,           \* the batch that call returned (<<>> when it panicked)
    steps,            \* what the closure did for each event of that call
    lastPress,        \* history: fate of the latest Left CursorPressed handled
    releasedSince,    \* history: a Left CursorReleased was handled after it
    emitOpen,         \* history: a ButtonPressed was emitted and not yet ended
    emitBroken,       \* history: a ButtonReleased/Canceled was emitted unopened
    moved,            \* history: the owner changed the geometry since the last call
    vec,              \* a math::Vector value held by a caller
    made,             \* the Vector constructor that made vec, "none" if computed
    widgets,          \* pipeline: the registered Buttons, in registration order
    ppc,              \* pipeline: "ready" | "returned" | "panicked"
    pinput,           \* pipeline: the batch handed to the last dispatch
    poutput,          \* pipeline: the batch the last widget returned
    psteps,           \* pipeline: per widget, what its closure did in that dispatch
    leftDown,         \* pipeline: the last Left cursor event dispatched was a press
    pressRepeated     \* pipeline: a Left press was dispatched while leftDown

buttonVars == <<button, overflow_checks, pc, input, output, steps,
                lastPress, releasedSince, emitOpen, emitBroken, moved>>
vectorVars == <<vec, made>>
pipeVars == <<widgets, ppc, pinput, poutput, psteps, leftDown, pressRepeated>>

vars == <<buttonVars, vectorVars, pipeVars>>

----------------------------------------------------------------------------
(* i32 *)

I32Max == 2147483647
I32Min == -I32Max - 1

\* The mathematical a - b lies outside the i32 range.  Written so that no
\* intermediate value leaves the range either.
SubOverflows(a, b) ==
    \/ a >= 0 /\ b < 0 /\ a > I32Max + b
    \/ a < 0 /\ b > 0 /\ a < I32Min + b

\* i32::wrapping_sub: a - b modulo 2^32, as a signed value.
WrappingSub(a, b) ==
    IF ~SubOverflows(a, b) THEN a - b
    ELSE IF a >= 0 THEN ((a - I32Max) - 1) - ((b + I32Max) + 1)   \* a - b - 2^32
    ELSE ((a - I32Min) - (b - I32Max)) + 1                       \* a - b + 2^32

----------------------------------------------------------------------------
(* math::Vector: the unit-vector constructors.  The f32 components -1.0, 0.0
   and 1.0 are written as the integers they equal. *)

Vector(x, y, z) == [x |-> x, y |-> y, z |-> z]

zero == Vector(0, 0, 0)
one == Vector(1, 1, 1)
back == Vector(0, 0, -1)
down == Vector(0, -1, 0)
forward == Vector(0, 0, 1)
left == Vector(1, 0, 0)
right == Vector(-1, 0, 0)
up == Vector(0, 1, 0)

\* impl Add for Vector, impl Neg for Vector.
add(self, other) == Vector(self.x + other.x, self.y + other.y, self.z + other.z)
neg(self) == Vector(-self.x, -self.y, -self.z)

----------------------------------------------------------------------------
(* Events *)

CursorPressed(x, y, b) == [kind |-> "CursorPressed", x |-> x, y |-> y, button |-> b]
CursorReleased(x, y, b) == [kind |-> "CursorReleased", x |-> x, y |-> y, button |-> b]
ButtonPressed(id) == [kind |-> "ButtonPressed", id |-> id]
ButtonReleased(id) == [kind |-> "ButtonReleased", id |-> id]
ButtonCanceled(id) == [kind |-> "ButtonCanceled", id |-> id]
DeviceEvent == [kind |-> "Device"]

\* Option::None of the closure: no value for this event.
NoEvent == [kind |-> "None"]

\* Variant of the pattern that binds the mouse button instead of requiring
\* MouseButton::Left.
IsLeftCursor_AnyButton(event, kind) == event.kind = kind

\* The pattern IntermediateEvent::<kind>(_, _, MouseButton::Left).
IsLeftCursor(event, kind) == event.kind = kind /\ event.button = "Left"

----------------------------------------------------------------------------
(* Button *)

new(id, x, y, width, height) ==
    [id |-> id, x |-> x, y |-> y, width |-> width, height |-> height, pressed |-> FALSE]

\* One of the two subtractions of inside() leaves the i32 range.
insideOverflows(self, x, y) == SubOverflows(x, self.x) \/ SubOverflows(y, self.y)

\* Variant of inside that forgets the upper bound on dx.
inside_NoUpperX(self, x, y) ==
    LET dx == WrappingSub(x, self.x)
        dy == WrappingSub(y, self.y)
    IN  0 <= dx /\ 0 <= dy /\ dy <= self.height

\* Variant of inside with the far edges excluded (dx < width, dy < height).
inside_Exclusive(self, x, y) ==
    LET dx == WrappingSub(x, self.x)
        dy == WrappingSub(y, self.y)
    IN  0 <= dx /\ dx < self.width /\ 0 <= dy /\ dy < self.height

\* Button::inside as a build without overflow checks computes it.
inside(self, x, y) ==
    LET dx == WrappingSub(x, self.x)
        dy == WrappingSub(y, self.y)
    IN  0 <= dx /\ dx <= self.width /\ 0 <= dy /\ dy <= self.height

\* Result of the closure for one event: the value it yields, the value of
\* self.pressed it leaves, what the hit test said ("none" when the hit test
\* was not run) and whether it panicked.
Result(out, pressed, hit, panic) ==
    [out |-> out, pressed |-> pressed, hit |-> hit, panic |-> panic]

\* Variant of the last arm that also resets self.pressed.
PassThrough_ClearsPressed(self, event) == Result(event, FALSE, "none", FALSE)

\* Last match arm: event => Some(event).
PassThrough(self, event) == Result(event, self.pressed, "none", FALSE)

\* First and second match arms: CursorPressed(x, y, Left) if self.inside(x, y),
\* then CursorPressed(_, _, Left) if self.pressed; with neither guard true the
\* event falls to the last arm.
CursorPressedLeft(self, event, checks) ==
    IF checks /\ insideOverflows(self, event.x, event.y)
    THEN Result(NoEvent, self.pressed, "panic", TRUE)
    ELSE IF inside(self, event.x, event.y)
    THEN Result(ButtonPressed(self.id), TRUE, "inside", FALSE)
    ELSE IF self.pressed
    THEN Result(ButtonPressed(self.id), self.pressed, "outside", FALSE)
    ELSE [PassThrough(self, event) EXCEPT !.hit = "outside"]

\* Variant of the third arm without `self.pressed = false`.
CursorReleasedLeft_KeepsPressed(self, event, checks) ==
    IF checks /\ insideOverflows(self, event.x, event.y)
    THEN Result(NoEvent, self.pressed, "panic", TRUE)
    ELSE IF inside(self, event.x, event.y)
    THEN Result(ButtonReleased(self.id), self.pressed, "inside", FALSE)
    ELSE Result(ButtonCanceled(self.id), self.pressed, "outside", FALSE)

\* Variant of the third arm with the two outcomes exchanged.
CursorReleasedLeft_Swapped(self, event, checks) ==
    IF checks /\ insideOverflows(self, event.x, event.y)
    THEN Result(NoEvent, FALSE, "panic", TRUE)
    ELSE IF inside(self, event.x, event.y)
    THEN Result(ButtonCanceled(self.id), FALSE, "inside", FALSE)
    ELSE Result(ButtonReleased(self.id), FALSE, "outside", FALSE)

\* Third match arm, its guard self.pressed already true: self.pressed is
\* cleared before the hit test runs.
CursorReleasedLeft(self, event, checks) ==
    IF checks /\ insideOverflows(self, event.x, event.y)
    THEN Result(NoEvent, FALSE, "panic", TRUE)
    ELSE IF inside(self, event.x, event.y)
    THEN Result(ButtonReleased(self.id), FALSE, "inside", FALSE)
    ELSE Result(ButtonCanceled(self.id), FALSE, "outside", FALSE)

\* Variant of the match whose third arm has no `if self.pressed` guard.
ProcessEvent_UnguardedRelease(self, event, checks) ==
    IF IsLeftCursor(event, "CursorPressed")
    THEN CursorPressedLeft(self, event, checks)
    ELSE IF IsLeftCursor(event, "CursorReleased")
    THEN CursorReleasedLeft(self, event, checks)
    ELSE PassThrough(self, event)

\* The closure of process: the match on one event.
ProcessEvent(self, event, checks) ==
    IF IsLeftCursor(event, "CursorPressed")
    THEN CursorPressedLeft(self, event, checks)
    ELSE IF IsLeftCursor(event, "CursorReleased") /\ self.pressed
    THEN CursorReleasedLeft(self, event, checks)
    ELSE PassThrough(self, event)

\* Variant of the pass in which every event sees the flag the call began with.
RECURSIVE RunClosure_StaleFlag(_, _, _)
RunClosure_StaleFlag(self, events, checks) ==
    IF events = <<>> THEN <<>>
    ELSE LET r == ProcessEvent(self, Head(events), checks)
             step == [pre |-> self.pressed, event |-> Head(events), hit |-> r.hit,
                      out |-> r.out, post |-> r.pressed, panic |-> r.panic]
         IN  IF r.panic THEN <<step>>
             ELSE <<step>> \o RunClosure_StaleFlag(self, Tail(events), checks)

\* into_iter().filter_map(closure): the closure applied to the events in
\* order, each seeing the flag the previous one left; a panic ends the pass.
RECURSIVE RunClosure(_, _, _)
RunClosure(self, events, checks) ==
    IF events = <<>> THEN <<>>
    ELSE LET r == ProcessEvent(self, Head(events), checks)
             step == [pre |-> self.pressed, event |-> Head(events), hit |-> r.hit,
                      out |-> r.out, post |-> r.pressed, panic |-> r.panic]
         IN  IF r.panic THEN <<step>>
             ELSE <<step>> \o RunClosure([self EXCEPT !.pressed = r.pressed],
                                         Tail(events), checks)

Panicked(ss) == ss # <<>> /\ ss[Len(ss)].panic

\* filter_map keeps the Some values; collect() gathers them.
IsSome(s) == s.out # NoEvent

\* Variant of collect that gathers the values last to first.
Collect_Reversed(ss) ==
    LET kept == SelectSeq(ss, IsSome)
    IN  [i \in 1..Len(kept) |-> kept[Len(kept) + 1 - i].out]

Collect(ss) == LET kept == SelectSeq(ss, IsSome) IN [i \in 1..Len(kept) |-> kept[i].out]

\* self.pressed once the pass is over.
FinalPressed(self, ss) == IF ss = <<>> THEN self.pressed ELSE ss[Len(ss)].post

----------------------------------------------------------------------------
(* History of the Left cursor events one widget has handled.  A press that
   panicked in the hit test reached no match arm and leaves the history as it
   was; a release counts from the moment its arm clears self.pressed. *)

LeftPressEvent(e) == e.kind = "CursorPressed" /\ e.button = "Left"
LeftReleaseEvent(e) == e.kind = "CursorReleased" /\ e.button = "Left"

RECURSIVE HistoryAfter(_, _, _)
HistoryAfter(hist, self, ss) ==
    IF ss = <<>> THEN hist
    ELSE LET s == ss[1]
             h == IF LeftPressEvent(s.event) /\ ~s.panic
                  THEN [lastPress |-> IF s.out = ButtonPressed(self.id)
                                      THEN "accepted" ELSE "passed",
                        releasedSince |-> FALSE]
                  ELSE IF LeftReleaseEvent(s.event)
                  THEN [hist EXCEPT !.releasedSince = TRUE]
                  ELSE hist
         IN  HistoryAfter(h, self, Tail(ss))

\* What the widget itself put into the stream: a yielded element that is not
\* the element it was given.
Emitted(s) == s.out # s.event /\ s.out # NoEvent
EmittedKind(s, kinds) == Emitted(s) /\ s.out.kind \in kinds

\* Monitor of the emitted stream: open after a ButtonPressed, closed by a
\* ButtonReleased or ButtonCanceled, broken once one of those comes unopened.
RECURSIVE EmissionsAfter(_, _)
EmissionsAfter(mon, ss) ==
    IF ss = <<>> THEN mon
    ELSE LET s == ss[1]
             m == IF EmittedKind(s, {"ButtonPressed"})
                  THEN [mon EXCEPT !.open = TRUE]
                  ELSE IF EmittedKind(s, {"ButtonReleased", "ButtonCanceled"})
                  THEN [open |-> FALSE, broken |-> mon.broken \/ ~mon.open]
                  ELSE mon
         IN  EmissionsAfter(m, Tail(ss))

----------------------------------------------------------------------------
(* Inputs *)

MaxBatch == 2

\* Widgets the owner constructs: the one of the repository's tests, widgets
\* whose extent reaches the top of the i32 range, and negative-sized ones.
Widgets ==
    { new(3, 40, 40, 20, 20),
      new(3, 1, 40, I32Max, 20),
      new(3, 40, 1, 20, I32Max),
      new(3, 40, -1, 20, I32Max),
      new(3, 40, 40, -1, 20),
      new(3, 40, 40, 20, -1) }

\* Cursor positions: centre, far outside, the two corners of the tests' widget
\* and the points just beyond them, and the ends of the i32 range.
Points ==
    { <<50, 50>>, <<10, 50>>, <<40, 40>>, <<60, 60>>, <<39, 40>>, <<40, 61>>,
      <<I32Min, 50>>, <<50, I32Min>>, <<40, I32Max>> }

Events ==
    { CursorPressed(p[1], p[2], "Left") : p \in Points }
    \cup { CursorReleased(p[1], p[2], "Left") : p \in Points }
    \cup { CursorPressed(50, 50, "Right"), CursorReleased(50, 50, "Middle"),
           ButtonReleased(3), ButtonPressed(4), DeviceEvent }

Batches == UNION { [1..n -> Events] : n \in 0..MaxBatch }

----------------------------------------------------------------------------
(* The program *)

\* No Vector work is going on.
VectorIdle == vec = zero /\ made = "none"

\* No pipeline is set up.
PipeIdle ==
    /\ widgets = <<>>
    /\ ppc = "ready"
    /\ pinput = <<>>
    /\ poutput = <<>>
    /\ psteps = <<>>
    /\ leftDown = FALSE
    /\ pressRepeated = FALSE

Init ==
    /\ button \in Widgets
    /\ overflow_checks \in BOOLEAN
    /\ pc = "ready"
    /\ input = <<>>
    /\ output = <<>>
    /\ steps = <<>>
    /\ lastPress = "none"
    /\ releasedSince = FALSE
    /\ emitOpen = FALSE
    /\ emitBroken = FALSE
    /\ moved = FALSE
    /\ VectorIdle
    /\ PipeIdle

\* button.process(events): the whole pass over the batch.  A panic unwinds
\* out of process: nothing is returned and the caller does not go on.
ProcessFrom(batches) ==
    /\ pc = "ready"
    /\ \E events \in batches :
       LET ss == RunClosure(button, events, overflow_checks)
           h == HistoryAfter([lastPress |-> lastPress, releasedSince |-> releasedSince],
                             button, ss)
           m == EmissionsAfter([open |-> emitOpen, broken |-> emitBroken], ss)
       IN  /\ steps' = ss
           /\ input' = events
           /\ button' = [button EXCEPT !.pressed = FinalPressed(button, ss)]
           /\ output' = IF Panicked(ss) THEN <<>> ELSE Collect(ss)
           /\ pc' = IF Panicked(ss) THEN "panicked" ELSE "returned"
           /\ lastPress' = h.lastPress
           /\ releasedSince' = h.releasedSince
           /\ emitOpen' = m.open
           /\ emitBroken' = m.broken
    /\ UNCHANGED <<overflow_checks, moved, vectorVars, pipeVars>>

Process == ProcessFrom(Batches)

\* The caller is done with the returned batch and builds the next one.
NextCycle ==
    /\ pc = "returned"
    /\ pc' = "ready"
    /\ input' = <<>>
    /\ output' = <<>>
    /\ steps' = <<>>
    /\ moved' = FALSE
    /\ UNCHANGED <<button, overflow_checks, lastPress, releasedSince,
                   emitOpen, emitBroken, vectorVars, pipeVars>>

Next ==
    \/ Process
    \/ NextCycle

Spec == Init /\ [][Next]_vars

----------------------------------------------------------------------------
(* A caller of math::Vector: it makes vectors with the constructors and
   combines them with + and unary -. *)

MaxCoord == 2

Constructors ==
    { [name |-> "zero", value |-> zero], [name |-> "one", value |-> one],
      [name |-> "back", value |-> back], [name |-> "down", value |-> down],
      [name |-> "forward", value |-> forward], [name |-> "left", value |-> left],
      [name |-> "right", value |-> right], [name |-> "up", value |-> up] }

InCoordBounds(v) == \A c \in {v.x, v.y, v.z} : -MaxCoord <= c /\ c <= MaxCoord

\* No Button work is going on.
ButtonIdle ==
    /\ button = new(3, 40, 40, 20, 20)
    /\ pc = "ready"
    /\ input = <<>>
    /\ output = <<>>
    /\ steps = <<>>
    /\ lastPress = "none"
    /\ releasedSince = FALSE
    /\ emitOpen = FALSE
    /\ emitBroken = FALSE
    /\ moved = FALSE

VectorInit == ButtonIdle /\ overflow_checks = FALSE /\ VectorIdle /\ PipeIdle

Construct ==
    /\ \E c \in Constructors : vec' = c.value /\ made' = c.name
    /\ UNCHANGED <<buttonVars, pipeVars>>

AddVector ==
    /\ \E c \in Constructors :
        /\ InCoordBounds(add(vec, c.value))
        /\ vec' = add(vec, c.value)
    /\ made' = "none"
    /\ UNCHANGED <<buttonVars, pipeVars>>

NegVector ==
    /\ vec' = neg(vec)
    /\ made' = "none"
    /\ UNCHANGED <<buttonVars, pipeVars>>

VectorNext ==
    \/ Construct
    \/ AddVector
    \/ NegVector

VectorSpec == VectorInit /\ [][VectorNext]_vars

----------------------------------------------------------------------------
(* The owner of a Button: x, y, width and height are pub fields, which the
   owner may assign between two calls of process; pressed is private. *)

MaxOwnerBatch == 1

OwnerBatches == UNION { [1..n -> Events] : n \in 0..MaxOwnerBatch }

Geometry(self) == <<self.x, self.y, self.width, self.height>>

\* button.x = ..; button.y = ..; button.width = ..; button.height = ..
SetGeometry ==
    /\ pc = "ready"
    /\ \E w \in Widgets :
          /\ Geometry(w) # Geometry(button)
          /\ button' = [button EXCEPT !.x = w.x, !.y = w.y,
                                      !.width = w.width, !.height = w.height]
    /\ moved' = TRUE
    /\ UNCHANGED <<overflow_checks, pc, input, output, steps, lastPress,
                   releasedSince, emitOpen, emitBroken, vectorVars, pipeVars>>

OwnerProcess == ProcessFrom(OwnerBatches)

OwnerNext ==
    \/ OwnerProcess
    \/ NextCycle
    \/ SetGeometry

OwnerSpec == Init /\ [][OwnerNext]_vars

----------------------------------------------------------------------------
(* The pipeline dispatcher: an ordered list of Buttons, one batch threaded
   through them in registration order, each widget's returned batch being the
   next widget's input.  A panic in one widget unwinds out of the dispatch. *)

\* Pipelines the owner registers: two disjoint widgets in either order, two
\* overlapping widgets, and two disjoint widgets at the two ends of the i32
\* range in either order, and three pairwise disjoint widgets.
Pipelines ==
    { <<new(3, 40, 40, 20, 20), new(4, 70, 40, 20, 20)>>,
      <<new(4, 70, 40, 20, 20), new(3, 40, 40, 20, 20)>>,
      <<new(3, 40, 40, 20, 20), new(4, 50, 50, 20, 20)>>,
      <<new(3, 1, 40, I32Max, 20), new(4, I32Min, 40, 10, 20)>>,
      <<new(4, I32Min, 40, 10, 20), new(3, 1, 40, I32Max, 20)>>,
      <<new(5, 60, 61, 10, 10), new(4, 70, 40, 20, 20), new(3, 40, 40, 20, 20)>> }

PipePoints == { <<50, 50>>, <<75, 50>>, <<65, 65>>, <<10, 50>>, <<I32Min, 50>> }

PipeEvents ==
    { CursorPressed(p[1], p[2], "Left") : p \in PipePoints }
    \cup { CursorReleased(p[1], p[2], "Left") : p \in PipePoints }
    \cup { CursorPressed(50, 50, "Right"), ButtonPressed(3), DeviceEvent }

PipeBatches == UNION { [1..n -> PipeEvents] : n \in 0..MaxBatch }

\* batch := processors[0].process(batch); batch := processors[1].process(batch); ...
RECURSIVE Thread(_, _, _)
Thread(ws, batch, checks) ==
    IF ws = <<>> THEN <<>>
    ELSE LET ss == RunClosure(Head(ws), batch, checks)
         IN  IF Panicked(ss) THEN <<ss>>
             ELSE <<ss>> \o Thread(Tail(ws), Collect(ss), checks)

\* The cursor gesture seen so far: gest.down after a Left press with no Left
\* release since, gest.repeated once a Left press came while gest.down.
RECURSIVE GestureAfter(_, _)
GestureAfter(gest, ss) ==
    IF ss = <<>> THEN gest
    ELSE LET e == Head(ss).event
             g == IF LeftPressEvent(e)
                  THEN [down |-> TRUE, repeated |-> gest.repeated \/ gest.down]
                  ELSE IF LeftReleaseEvent(e)
                       THEN [gest EXCEPT !.down = FALSE]
                       ELSE gest
         IN  GestureAfter(g, Tail(ss))

PipeInit ==
    /\ ButtonIdle
    /\ overflow_checks \in BOOLEAN
    /\ VectorIdle
    /\ widgets \in Pipelines
    /\ ppc = "ready"
    /\ pinput = <<>>
    /\ poutput = <<>>
    /\ psteps = <<>>
    /\ leftDown = FALSE
    /\ pressRepeated = FALSE

\* One dispatch of a batch through every registered widget.
PipeProcess ==
    /\ ppc = "ready"
    /\ \E batch \in PipeBatches :
       LET ps == Thread(widgets, batch, overflow_checks)
           aborted == Panicked(ps[Len(ps)])
           g == GestureAfter([down |-> leftDown, repeated |-> pressRepeated], ps[1])
       IN  /\ psteps' = ps
           /\ leftDown' = g.down
           /\ pressRepeated' = g.repeated
           /\ pinput' = batch
           /\ widgets' = [k \in 1..Len(widgets) |->
                            IF k <= Len(ps)
                            THEN [widgets[k] EXCEPT !.pressed = FinalPressed(widgets[k], ps[k])]
                            ELSE widgets[k]]
           /\ poutput' = IF aborted THEN <<>> ELSE Collect(ps[Len(ps)])
           /\ ppc' = IF aborted THEN "panicked" ELSE "returned"
    /\ UNCHANGED <<buttonVars, vectorVars>>

\* The application is done with the batch; the next input cycle begins.
PipeNextCycle ==
    /\ ppc = "returned"
    /\ ppc' = "ready"
    /\ pinput' = <<>>
    /\ poutput' = <<>>
    /\ psteps' = <<>>
    /\ UNCHANGED <<widgets, leftDown, pressRepeated, buttonVars, vectorVars>>

PipeNext ==
    \/ PipeProcess
    \/ PipeNextCycle

PipeSpec == PipeInit /\ [][PipeNext]_vars


----------------------------------------------------------------------------
(* Vocabulary of the properties *)

\* The region of the data model: 0 <= px - x <= width and 0 <= py - y <= height
\* over the integers.  px >= x and no overflow make px - x the exact difference;
\* a difference beyond I32Max exceeds every i32 width.
InRange(p, origin, extent) ==
    p >= origin /\ ~SubOverflows(p, origin) /\ p - origin <= extent

InRegion(self, x, y) == InRange(x, self.x, self.width) /\ InRange(y, self.y, self.height)

Idle(s) == ~s.pre
Captured(s) == s.pre

LeftPress(s) == LeftPressEvent(s.event)
LeftRelease(s) == LeftReleaseEvent(s.event)
Relevant(s) == LeftPress(s) \/ LeftRelease(s)

PointInRegion(s) == InRegion(button, s.event.x, s.event.y)

\* Step i of the last call yielded `out` and left the widget's flag at `flag`:
\* the next event of the batch, or the caller after the last one, finds it so.
Yields(i, out, flag) ==
    /\ ~steps[i].panic
    /\ steps[i].out = out
    /\ steps[i].post = flag
    /\ i < Len(steps) => steps[i + 1].pre = flag
    /\ i = Len(steps) => button.pressed = flag

Unchanged(i) == Yields(i, steps[i].event, steps[i].pre)

StepIndexes == 1..Len(steps)

----------------------------------------------------------------------------
(* Properties *)

\* C1 -- Length preservation: every call of process, for every batch, widget
\* geometry and state, returns a batch with exactly as many elements as the
\* batch it was given.
C1_LengthPreservation ==
    pc # "ready" => pc = "returned" /\ Len(output) = Len(input)

\* C2 -- Captured-state invariant: the flag `pressed` is true exactly when the
\* most recent Left CursorPressed the widget handled was replaced by
\* ButtonPressed(id) and no Left CursorReleased has been handled since.
C2_CapturedInvariant ==
    button.pressed <=> (lastPress = "accepted" /\ ~releasedSince)

\* C2 witness: a captured widget whose last batch first ended an earlier
\* capture with a release and then accepted a new press.
C2_Witness ==
    /\ pc = "returned" /\ button.pressed /\ Len(steps) = 2
    /\ LeftRelease(steps[1]) /\ Captured(steps[1])
    /\ LeftPress(steps[2]) /\ steps[2].out = ButtonPressed(button.id)

\* C3 -- Idle + inside press: an Idle widget handling a Left CursorPressed at a
\* point of its region yields ButtonPressed(own id) and becomes Captured.
C3_IdleInsidePress ==
    \A i \in StepIndexes :
        Idle(steps[i]) /\ LeftPress(steps[i]) /\ PointInRegion(steps[i])
            => Yields(i, ButtonPressed(button.id), TRUE)

\* C3 witness: an Idle widget accepted a press on the far corner of its region.
C3_Witness ==
    \E i \in StepIndexes :
        /\ Idle(steps[i]) /\ LeftPress(steps[i]) /\ PointInRegion(steps[i])
        /\ steps[i].event.x - button.x = button.width
        /\ steps[i].out = ButtonPressed(button.id)
        /\ button.pressed

\* C4 -- Idle + outside press: an Idle widget handling a Left CursorPressed at
\* a point outside its region yields the same event and stays Idle.
C4_IdleOutsidePress ==
    \A i \in StepIndexes :
        Idle(steps[i]) /\ LeftPress(steps[i]) /\ ~PointInRegion(steps[i])
            => Unchanged(i)

\* C5 -- Release inside: a Captured widget handling a Left CursorReleased at a
\* point of its region yields ButtonReleased(own id) and becomes Idle.
C5_ReleaseInside ==
    \A i \in StepIndexes :
        Captured(steps[i]) /\ LeftRelease(steps[i]) /\ PointInRegion(steps[i])
            => Yields(i, ButtonReleased(button.id), FALSE)

\* C5 witness: a widget captured in an earlier batch released inside its region.
C5_Witness ==
    /\ pc = "returned" /\ ~button.pressed
    /\ \E i \in StepIndexes :
        /\ i = 1 /\ Captured(steps[i]) /\ LeftRelease(steps[i]) /\ PointInRegion(steps[i])
        /\ steps[i].out = ButtonReleased(button.id)

\* C6 -- Release outside: a Captured widget handling a Left CursorReleased at a
\* point outside its region yields ButtonCanceled(own id) and becomes Idle,
\* wherever the press was.
C6_ReleaseOutside ==
    \A i \in StepIndexes :
        Captured(steps[i]) /\ LeftRelease(steps[i]) /\ ~PointInRegion(steps[i])
            => Yields(i, ButtonCanceled(button.id), FALSE)

\* C7 -- Re-affirmation: a Captured widget replaces every Left CursorPressed,
\* at any coordinate, by ButtonPressed(own id) and stays Captured.
C7_Reaffirmation ==
    \A i \in StepIndexes :
        Captured(steps[i]) /\ LeftPress(steps[i])
            => Yields(i, ButtonPressed(button.id), TRUE)

\* C8 -- Pass-through: an event that is not a Left CursorPressed or Left
\* CursorReleased is yielded as it came, in either state, and the flag keeps
\* its value.
C8_PassThrough ==
    \A i \in StepIndexes : ~Relevant(steps[i]) => Unchanged(i)

\* C8 witness: a Captured widget passed a Right press inside its region, and an
\* Idle widget passed a ButtonReleased carrying its own id.
C8_Witness ==
    \E i \in StepIndexes :
        /\ ~Relevant(steps[i]) /\ steps[i].out = steps[i].event
        /\ \/ Captured(steps[i]) /\ steps[i].event = CursorPressed(50, 50, "Right")
                /\ InRegion(button, 50, 50)
           \/ Idle(steps[i]) /\ steps[i].event = ButtonReleased(button.id)

\* C9 -- Idle + release: an Idle widget yields every CursorReleased as it came,
\* inside or outside its region, and stays Idle; nothing it yields from Idle
\* is a ButtonReleased or ButtonCanceled of its own making.
C9_IdleRelease ==
    \A i \in StepIndexes :
        Idle(steps[i]) =>
            /\ steps[i].event.kind = "CursorReleased" => Unchanged(i)
            /\ steps[i].out.kind \in {"ButtonReleased", "ButtonCanceled"}
                   => steps[i].out = steps[i].event

\* C9 witness: a widget that has never been captured passed a Left release
\* located inside its region.
C9_Witness ==
    /\ lastPress = "none" /\ ~button.pressed
    /\ \E i \in StepIndexes :
        /\ Idle(steps[i]) /\ LeftRelease(steps[i]) /\ PointInRegion(steps[i])
        /\ steps[i].out = steps[i].event

\* C10 -- Hit test over the whole i32 range: whenever the hit test runs, it
\* answers "inside" exactly for the points with 0 <= px - x <= width and
\* 0 <= py - y <= height, the differences taken over the integers.
C10_HitTest ==
    \A i \in StepIndexes :
        steps[i].hit # "none" =>
            /\ steps[i].hit \in {"inside", "outside"}
            /\ steps[i].hit = "inside" <=> PointInRegion(steps[i])

\* Named points of the boundary of the widget's region.
AtOrigin(s) == s.event.x = button.x /\ s.event.y = button.y
AtFarCorner(s) ==
    /\ ~insideOverflows(button, s.event.x, s.event.y)
    /\ s.event.x - button.x = button.width
    /\ s.event.y - button.y = button.height
LeftOfOrigin(s) ==
    /\ s.event.x < button.x
    /\ ~SubOverflows(button.x, s.event.x)
    /\ button.x - s.event.x = 1
    /\ s.event.y = button.y
BelowFarEdge(s) ==
    /\ s.event.x = button.x
    /\ s.event.y > button.y
    /\ ~SubOverflows(s.event.y - 1, button.y)
    /\ (s.event.y - 1) - button.y = button.height

HitTested(s) == s.hit # "none"

\* C11 -- Boundary inclusivity: for a widget at (x, y, width, height) (of
\* non-negative size: a negative-sized region has no point at all), whenever
\* the hit test runs on (x, y) or on (x + width, y + height) it answers
\* inside, and on (x - 1, y) or (x, y + height + 1) it answers outside.
C11_BoundaryInclusive ==
    button.width >= 0 /\ button.height >= 0 =>
        \A i \in StepIndexes :
            HitTested(steps[i]) =>
                /\ AtOrigin(steps[i]) \/ AtFarCorner(steps[i]) => steps[i].hit = "inside"
                /\ LeftOfOrigin(steps[i]) \/ BelowFarEdge(steps[i]) => steps[i].hit = "outside"

\* C12 -- Negative size never activates: a widget whose width or height is
\* negative is Idle after any sequence of events, its hit test never answers
\* inside, it never changes its flag, and every element it yields or returns
\* is the element it was given.
C12_NegativeSizeInert ==
    button.width < 0 \/ button.height < 0 =>
        /\ ~button.pressed
        /\ lastPress # "accepted"
        /\ \A i \in StepIndexes :
            /\ steps[i].hit # "inside"
            /\ ~steps[i].pre /\ ~steps[i].post
            /\ steps[i].out \in {steps[i].event, NoEvent}
        /\ \A i \in 1..Len(output) : output[i] = input[i]

\* C12 witness: a widget of negative width was pressed on its own origin and
\* released there, and returned both events.
C12_Witness ==
    /\ button.width < 0 /\ pc = "returned" /\ Len(output) = 2
    /\ LeftPress(steps[1]) /\ AtOrigin(steps[1])
    /\ LeftRelease(steps[2]) /\ AtOrigin(steps[2])

\* C13 -- Totality: process never aborts; for every batch and every i32 value
\* of the coordinates and the geometry it yields an element for every event.
C13_Totality ==
    /\ pc # "panicked"
    /\ \A i \in StepIndexes : ~steps[i].panic /\ steps[i].out # NoEvent

\* C15 -- Vector::left() is (-1.0, 0.0, 0.0) and Vector::right() is
\* (1.0, 0.0, 0.0), as the first line of their documentation says.
C15_LeftRightAsDocumented ==
    /\ made = "left" => vec = Vector(-1, 0, 0)
    /\ made = "right" => vec = Vector(1, 0, 0)

\* C16 -- Positional 1:1 mapping: element i of a returned batch is element i
\* of the given batch, or a ButtonPressed / ButtonReleased / ButtonCanceled
\* carrying the widget's own id that stands where a Left CursorPressed or Left
\* CursorReleased stood; no element changes place.
OwnButtonEvents ==
    {ButtonPressed(button.id), ButtonReleased(button.id), ButtonCanceled(button.id)}

C16_PositionalMapping ==
    /\ Len(output) <= Len(input)
    /\ \A i \in 1..Len(output) :
        \/ output[i] = input[i]
        \/ /\ output[i] \in OwnButtonEvents
           /\ LeftPressEvent(input[i]) \/ LeftReleaseEvent(input[i])

\* C16 witness: a returned batch of two different elements, the first kept and
\* the second replaced.
C16_Witness ==
    /\ pc = "returned" /\ Len(output) = 2
    /\ input[1] # input[2]
    /\ output[1] = input[1] /\ ~LeftPressEvent(input[1]) /\ ~LeftReleaseEvent(input[1])
    /\ output[2] # input[2] /\ output[2] = ButtonPressed(button.id)

\* C17 -- Sequential state visibility: a call on B1 \o B2 does what a call on
\* B1 followed by a call on B2 does: the same elements in the same order, the
\* same final flag, a panic in the one exactly when in the other; and an Idle
\* widget given [Left press inside, Left release inside] in one batch returns
\* [ButtonPressed(id), ButtonReleased(id)] and ends Idle.
ButtonBefore ==
    [button EXCEPT !.pressed = IF steps = <<>> THEN button.pressed ELSE steps[1].pre]

TwoCalls(b1, b2) ==
    LET ss1 == RunClosure(ButtonBefore, b1, overflow_checks)
        mid == [ButtonBefore EXCEPT !.pressed = FinalPressed(ButtonBefore, ss1)]
        ss2 == IF Panicked(ss1) THEN <<>> ELSE RunClosure(mid, b2, overflow_checks)
    IN  [out |-> Collect(ss1) \o Collect(ss2),
         pressed |-> FinalPressed(mid, ss2),
         panic |-> Panicked(ss1) \/ Panicked(ss2)]

C17_SequentialVisibility ==
    pc # "ready" =>
        /\ \A k \in 0..Len(input) :
            LET two == TwoCalls(SubSeq(input, 1, k), SubSeq(input, k + 1, Len(input)))
            IN  /\ two.panic <=> pc = "panicked"
                /\ two.pressed = button.pressed
                /\ pc = "returned" => two.out = output
                /\ two.out = Collect(steps)
        /\ ( /\ Len(input) = 2 /\ ~ButtonBefore.pressed
             /\ LeftPressEvent(input[1]) /\ InRegion(button, input[1].x, input[1].y)
             /\ LeftReleaseEvent(input[2]) /\ InRegion(button, input[2].x, input[2].y) )
           => /\ pc = "returned"
              /\ output = <<ButtonPressed(button.id), ButtonReleased(button.id)>>
              /\ ~button.pressed

\* C17 witness: an Idle widget was pressed and released inside its region in
\* one batch.
C17_Witness ==
    /\ pc = "returned" /\ Len(input) = 2 /\ ~ButtonBefore.pressed
    /\ LeftPressEvent(input[1]) /\ InRegion(button, input[1].x, input[1].y)
    /\ LeftReleaseEvent(input[2]) /\ InRegion(button, input[2].x, input[2].y)
    /\ output = <<ButtonPressed(button.id), ButtonReleased(button.id)>>

\* C18 -- Frame of process: a call of process leaves id, x, y, width and height
\* as they were, and within the call the flag changes only at a Left
\* CursorPressed or a Left CursorReleased.
ProcessCall == pc = "ready" /\ pc' # "ready"

C18_Frame ==
    [][ProcessCall =>
          /\ button'.id = button.id
          /\ button'.x = button.x /\ button'.y = button.y
          /\ button'.width = button.width /\ button'.height = button.height
          /\ \A i \in 1..Len(steps') :
                steps'[i].pre # steps'[i].post => Relevant(steps'[i])
          /\ button'.pressed # button.pressed => \E i \in 1..Len(steps') : Relevant(steps'[i])
      ]_vars

\* C18 witness: a call that handled an irrelevant event and then changed the
\* flag at a Left press.
C18_Witness ==
    /\ pc = "returned" /\ Len(steps) = 2
    /\ ~Relevant(steps[1])
    /\ LeftPress(steps[2]) /\ ~steps[2].pre /\ steps[2].post /\ button.pressed

\* C20 -- Press/release alternation: in the stream the widget emits, every
\* ButtonReleased or ButtonCanceled follows a ButtonPressed emitted since the
\* previous one of them (or since construction), and every capture that ends
\* ends with exactly one of the two.
C20_Alternation ==
    /\ ~emitBroken
    /\ \A i \in StepIndexes :
        steps[i].pre /\ ~steps[i].post =>
            steps[i].out \in {ButtonReleased(button.id), ButtonCanceled(button.id)}

----------------------------------------------------------------------------
(* Properties of pipelines *)

\* The regions of two widgets share no point: one of them is empty, or their
\* x extents or their y extents do not meet.
ExtentsMeet(o1, e1, o2, e2) == InRange(o1, o2, e2) \/ InRange(o2, o1, e1)

Disjoint(a, b) ==
    \/ a.width < 0 \/ a.height < 0 \/ b.width < 0 \/ b.height < 0
    \/ ~ExtentsMeet(a.x, a.width, b.x, b.width)
    \/ ~ExtentsMeet(a.y, a.height, b.y, b.height)

WidgetIndexes == 1..Len(widgets)

\* Widget k handled the event at position i of the last dispatch.
Handled(k, i) == k <= Len(psteps) /\ i <= Len(psteps[k])

Changed(k, i) == psteps[k][i].pre # psteps[k][i].post
Replaced(k, i) == psteps[k][i].out # psteps[k][i].event

\* C14 -- State isolation: of two widgets with disjoint regions, no single
\* Left CursorPressed changes the state of both, and a widget goes from Idle to
\* Captured at a press only when the press point is in its region.
C14_StateIsolation ==
    \A j, k \in WidgetIndexes :
        j # k /\ Disjoint(widgets[j], widgets[k]) =>
            \A i \in 1..Len(pinput) :
                /\ ~( /\ Handled(j, i) /\ Handled(k, i)
                      /\ LeftPressEvent(pinput[i])
                      /\ Changed(j, i) /\ Changed(k, i) )
                /\ ( /\ Handled(k, i)
                     /\ LeftPressEvent(psteps[k][i].event)
                     /\ ~psteps[k][i].pre /\ psteps[k][i].post )
                   => InRegion(widgets[k], psteps[k][i].event.x, psteps[k][i].event.y)

\* C19 -- Chain consumption: in a dispatch, each event is replaced by at most
\* one widget, and every widget registered after the one that replaced it
\* yields the replacement as it came and keeps its flag.
C19_ChainConsumption ==
    \A i \in 1..Len(pinput) :
        \A j, k \in WidgetIndexes :
            j < k /\ Handled(j, i) /\ Handled(k, i) /\ Replaced(j, i) =>
                /\ psteps[k][i].event = psteps[j][i].out
                /\ ~Replaced(k, i)
                /\ ~Changed(k, i)
                /\ ~psteps[k][i].panic
                /\ ppc = "returned" => poutput[i] = psteps[j][i].out

\* C19 witness: the first widget replaced a Left press lying in both regions
\* while the second widget, captured earlier, let the replacement pass.
C19_Witness ==
    /\ ppc = "returned" /\ Len(widgets) = 2 /\ Len(pinput) >= 1
    /\ LeftPressEvent(pinput[1])
    /\ InRegion(widgets[1], pinput[1].x, pinput[1].y)
    /\ InRegion(widgets[2], pinput[1].x, pinput[1].y)
    /\ psteps[1][1].out = ButtonPressed(widgets[1].id)
    /\ psteps[2][1].pre /\ psteps[2][1].post
    /\ poutput[1] = ButtonPressed(widgets[1].id)

PairwiseDisjoint ==
    \A j, k \in WidgetIndexes : j # k => Disjoint(widgets[j], widgets[k])

CapturedWidgets == { k \in WidgetIndexes : widgets[k].pressed }

\* C21 as stated -- Single capture: in a pipeline of pairwise disjoint Buttons
\* that all started Idle, at most one widget is Captured after any sequence of
\* batches.
C21_SingleCapture ==
    PairwiseDisjoint => Cardinality(CapturedWidgets) <= 1

\* C21 as amended -- Single capture: in a pipeline of pairwise disjoint Buttons
\* that all started Idle, at most one widget is Captured after any sequence of
\* batches in which every Left CursorPressed is followed by a Left
\* CursorReleased before the next Left CursorPressed.
C21_SingleCaptureAlternating ==
    PairwiseDisjoint /\ ~pressRepeated => Cardinality(CapturedWidgets) <= 1

\* C21 witness: in a pipeline of three disjoint widgets, a batch released one
\* captured widget and then captured another, presses and releases alternating.
C21_Witness ==
    /\ PairwiseDisjoint /\ ~pressRepeated
    /\ Len(widgets) = 3 /\ ppc = "returned" /\ Len(pinput) = 2
    /\ LeftReleaseEvent(pinput[1]) /\ LeftPressEvent(pinput[2])
    /\ \E j, k \in WidgetIndexes :
          /\ j # k
          /\ psteps[j][1].pre /\ ~psteps[j][1].post
          /\ ~psteps[k][2].pre /\ psteps[k][2].post
          /\ CapturedWidgets = {k}

----------------------------------------------------------------------------
(* Properties of a Button whose owner changes its geometry *)

GeometryChange == Geometry(button') # Geometry(button)

\* C22 -- Geometry changes between batches: an assignment to x, y, width or
\* height between two calls leaves the flag as it was, and in the call that
\* follows a Captured widget handling a Left CursorReleased becomes Idle and
\* yields ButtonReleased(own id) when the point is in the region now in force,
\* ButtonCanceled(own id) when it is not (always so for a negative size).
C22_GeometryChange ==
    [][ /\ GeometryChange => button'.pressed = button.pressed
        /\ ProcessCall /\ moved =>
              \A i \in 1..Len(steps') :
                  steps'[i].pre /\ LeftReleaseEvent(steps'[i].event) =>
                      /\ ~steps'[i].panic
                      /\ ~steps'[i].post
                      /\ steps'[i].out =
                            IF InRegion(button', steps'[i].event.x, steps'[i].event.y)
                            THEN ButtonReleased(button.id)
                            ELSE ButtonCanceled(button.id)
      ]_vars

====
